---- MODULE Spec2Model ----
(***************************************************************************)
(* A model of pubsub-redis-wrap (src/src/pubsub-redis-wrap.js): a facade   *)
(* over two ioredis connections, `sub` (pattern subscriptions and the      *)
(* 'pmessage' listeners) and `pub` (PUBLISH commands).                     *)
(*                                                                         *)
(* JavaScript values are records [t, v]: t is the value's type tag and v   *)
(* its content.  A JavaScript string is a sequence of one-character        *)
(* strings, so that JSON.stringify and JSON.parse are modelled character   *)
(* by character.  Handlers passed to listen/onMessage are the caller's     *)
(* functions; they are taken to return normally.                           *)
(***************************************************************************)
EXTENDS Integers, Sequences, FiniteSets, TLC

(***************************************************************************)
(* JavaScript values                                                       *)
(***************************************************************************)
Undefined == [t |-> "undefined", v |-> <<>>]
Null == [t |-> "null", v |-> <<>>]
JStr(s) == [t |-> "string", v |-> s]
JNum(n) == [t |-> "number", v |-> n]
JBool(b) == [t |-> "boolean", v |-> b]
\* an array: the sequence of its elements
JArr(xs) == [t |-> "array", v |-> xs]
\* an object: the sequence of its <<key, value>> properties, in property order
JObj(ps) == [t |-> "object", v |-> ps]
\* a RegExp: a literal, optionally anchored with ^ and/or $
JRegExp(start, lit, end) ==
    [t |-> "regexp", v |-> [start |-> start, lit |-> lit, end |-> end]]

\* !x
Falsy(x) ==
    \/ x.t \in {"undefined", "null"}
    \/ x.t = "string" /\ x.v = <<>>
    \/ x.t = "number" /\ x.v = 0
    \/ x.t = "boolean" /\ x.v = FALSE

\* typeof x === 'object'
TypeofObject(x) == x.t \in {"null", "array", "object", "regexp"}

\* x instanceof RegExp
InstanceofRegExp(x) == x.t = "regexp"

\* a === b for a string a
StrictEqualsString(a, b) == b.t = "string" /\ b.v = a

(***************************************************************************)
(* JSON.stringify                                                          *)
(***************************************************************************)
DigitChars == <<"0", "1", "2", "3", "4", "5", "6", "7", "8", "9">>

IsDigit(c) == \E d \in 1..10 : DigitChars[d] = c

DigitVal(c) == (CHOOSE d \in 1..10 : DigitChars[d] = c) - 1

RECURSIVE NumberToString(_)
NumberToString(n) ==
    IF n < 10 THEN <<DigitChars[n + 1]>>
    ELSE NumberToString(n \div 10) \o <<DigitChars[(n % 10) + 1]>>

RECURSIVE EscapeChars(_)
EscapeChars(s) ==
    IF s = <<>> THEN <<>>
    ELSE (IF Head(s) \in {"\"", "\\"} THEN <<"\\", Head(s)>> ELSE <<Head(s)>>)
         \o EscapeChars(Tail(s))

QuoteString(s) == <<"\"">> \o EscapeChars(s) \o <<"\"">>

RECURSIVE JSONstringify(_)
RECURSIVE StringifyElems(_)
RECURSIVE StringifyProps(_)
StringifyElems(xs) ==
    IF xs = <<>> THEN <<>>
    ELSE JSONstringify(Head(xs))
         \o (IF Len(xs) > 1 THEN <<",">> ELSE <<>>)
         \o StringifyElems(Tail(xs))

StringifyProps(ps) ==
    IF ps = <<>> THEN <<>>
    ELSE QuoteString(Head(ps)[1]) \o <<":">> \o JSONstringify(Head(ps)[2])
         \o (IF Len(ps) > 1 THEN <<",">> ELSE <<>>)
         \o StringifyProps(Tail(ps))

JSONstringify(x) ==
    CASE x.t = "null" -> <<"n", "u", "l", "l">>
      [] x.t = "boolean" ->
            IF x.v THEN <<"t", "r", "u", "e">> ELSE <<"f", "a", "l", "s", "e">>
      [] x.t = "number" -> NumberToString(x.v)
      [] x.t = "string" -> QuoteString(x.v)
      [] x.t = "array" -> <<"[">> \o StringifyElems(x.v) \o <<"]">>
      [] x.t = "object" -> <<"{">> \o StringifyProps(x.v) \o <<"}">>

(***************************************************************************)
(* JSON.parse: a recursive-descent parser.  A result is                    *)
(* [ok, val, pos]: whether a value was read, the value, and the position   *)
(* after it.                                                               *)
(***************************************************************************)
ParseFail == [ok |-> FALSE, val |-> Undefined, pos |-> 0]

ParseOk(val, pos) == [ok |-> TRUE, val |-> val, pos |-> pos]

RECURSIVE SkipWs(_, _)
SkipWs(s, i) == IF i <= Len(s) /\ s[i] = " " THEN SkipWs(s, i + 1) ELSE i

\* whether the word w stands in s at position i
HasWord(s, i, w) ==
    /\ i + Len(w) - 1 <= Len(s)
    /\ \A k \in 1..Len(w) : s[i + k - 1] = w[k]

\* the digits of s from i on, read into the number acc
RECURSIVE ParseDigits(_, _, _)
ParseDigits(s, i, acc) ==
    IF i <= Len(s) /\ IsDigit(s[i])
    THEN ParseDigits(s, i + 1, 10 * acc + DigitVal(s[i]))
    ELSE ParseOk(JNum(acc), i)

\* a number: 0, or a digit 1-9 followed by digits
ParseNumber(s, i) ==
    IF s[i] = "0" THEN ParseOk(JNum(0), i + 1) ELSE ParseDigits(s, i, 0)

\* the characters of a string literal after its opening quote
RECURSIVE ParseChars(_, _, _)
ParseChars(s, i, acc) ==
    IF i > Len(s) THEN ParseFail
    ELSE IF s[i] = "\"" THEN ParseOk(JStr(acc), i + 1)
    ELSE IF s[i] = "\\"
         THEN IF i + 1 <= Len(s) /\ s[i + 1] \in {"\"", "\\"}
              THEN ParseChars(s, i + 2, Append(acc, s[i + 1]))
              ELSE ParseFail
    ELSE ParseChars(s, i + 1, Append(acc, s[i]))

\* an object's properties with the property key set to val: a repeated key
\* keeps its place and takes the later value
RECURSIVE SetProp(_, _, _)
SetProp(ps, key, val) ==
    IF ps = <<>> THEN <<<<key, val>>>>
    ELSE IF Head(ps)[1] = key THEN <<<<key, val>>>> \o Tail(ps)
    ELSE <<Head(ps)>> \o SetProp(Tail(ps), key, val)

RECURSIVE ParseValue(_, _)
RECURSIVE ParseElems(_, _, _)
RECURSIVE ParseProps(_, _, _)
\* the elements of an array, s[i] being the first character of an element
ParseElems(s, i, acc) ==
    LET r == ParseValue(s, i) IN
    IF ~r.ok THEN ParseFail
    ELSE LET j == SkipWs(s, r.pos) IN
         IF j > Len(s) THEN ParseFail
         ELSE IF s[j] = "]" THEN ParseOk(JArr(Append(acc, r.val)), j + 1)
         ELSE IF s[j] = "," THEN ParseElems(s, j + 1, Append(acc, r.val))
         ELSE ParseFail

\* the properties of an object, a key being expected at or after s[i]
ParseProps(s, i, acc) ==
    LET k == SkipWs(s, i) IN
    IF k > Len(s) \/ s[k] # "\"" THEN ParseFail
    ELSE LET key == ParseChars(s, k + 1, <<>>) IN
         IF ~key.ok THEN ParseFail
         ELSE LET c == SkipWs(s, key.pos) IN
              IF c > Len(s) \/ s[c] # ":" THEN ParseFail
              ELSE LET r == ParseValue(s, c + 1) IN
                   IF ~r.ok THEN ParseFail
                   ELSE LET j == SkipWs(s, r.pos)
                            ps == SetProp(acc, key.val.v, r.val)
                        IN  IF j > Len(s) THEN ParseFail
                            ELSE IF s[j] = "}" THEN ParseOk(JObj(ps), j + 1)
                            ELSE IF s[j] = "," THEN ParseProps(s, j + 1, ps)
                            ELSE ParseFail

ParseValue(s, i) ==
    LET j == SkipWs(s, i) IN
    IF j > Len(s) THEN ParseFail
    ELSE IF s[j] = "{"
         THEN LET k == SkipWs(s, j + 1) IN
              IF k <= Len(s) /\ s[k] = "}" THEN ParseOk(JObj(<<>>), k + 1)
              ELSE ParseProps(s, j + 1, <<>>)
    ELSE IF s[j] = "["
         THEN LET k == SkipWs(s, j + 1) IN
              IF k <= Len(s) /\ s[k] = "]" THEN ParseOk(JArr(<<>>), k + 1)
              ELSE ParseElems(s, j + 1, <<>>)
    ELSE IF s[j] = "\"" THEN ParseChars(s, j + 1, <<>>)
    ELSE IF IsDigit(s[j]) THEN ParseNumber(s, j)
    ELSE IF HasWord(s, j, <<"t", "r", "u", "e">>) THEN ParseOk(JBool(TRUE), j + 4)
    ELSE IF HasWord(s, j, <<"f", "a", "l", "s", "e">>) THEN ParseOk(JBool(FALSE), j + 5)
    ELSE IF HasWord(s, j, <<"n", "u", "l", "l">>) THEN ParseOk(Null, j + 4)
    ELSE ParseFail

\* JSON.parse(s): [ok |-> FALSE] stands for the SyntaxError it throws
JSONparse(s) ==
    LET r == ParseValue(s, 1) IN
    IF r.ok /\ SkipWs(s, r.pos) > Len(s)
    THEN [ok |-> TRUE, val |-> r.val]
    ELSE [ok |-> FALSE, val |-> Undefined]

(***************************************************************************)
(* The facade's helpers                                                    *)
(***************************************************************************)
\* serializeMessage without the JSON.stringify branch
serializeMessage_NoStringify(message) ==
    IF Falsy(message) THEN JStr(<<>>) ELSE message

\* serializeMessage(message): the value handed to pub.publish as the body
serializeMessage(message) ==
    IF Falsy(message) THEN JStr(<<>>)
    ELSE IF TypeofObject(message) THEN JStr(JSONstringify(message))
    ELSE message

\* tryConvertToJSON that gives up parsing
tryConvertToJSON_NoParse(jsonString) == JStr(jsonString)

\* tryConvertToJSON without the `json &&` test
tryConvertToJSON_NoNullCheck(jsonString) ==
    LET parsed == JSONparse(jsonString) IN
    IF parsed.ok /\ TypeofObject(parsed.val) THEN parsed.val ELSE JStr(jsonString)

\* tryConvertToJSON(jsonString), jsonString being the characters of a string
tryConvertToJSON(jsonString) ==
    LET parsed == JSONparse(jsonString) IN
    IF parsed.ok /\ ~Falsy(parsed.val) /\ TypeofObject(parsed.val)
    THEN parsed.val
    ELSE JStr(jsonString)

\* String(x) of a command argument: what ioredis writes on the wire
RECURSIVE ArgToString(_)
RECURSIVE JoinArgs(_)
JoinArgs(xs) ==
    IF xs = <<>> THEN <<>>
    ELSE ArgToString(Head(xs)) \o (IF Len(xs) > 1 THEN <<",">> ELSE <<>>)
         \o JoinArgs(Tail(xs))

ArgToString(x) ==
    CASE x.t = "string" -> x.v
      [] x.t \in {"number", "boolean"} -> JSONstringify(x)
      [] x.t = "array" -> JoinArgs(x.v)
      [] x.t = "object" ->
            <<"[", "o", "b", "j", "e", "c", "t", " ", "O", "b", "j", "e", "c", "t", "]">>
      [] OTHER -> <<>>

(***************************************************************************)
(* The collaborators: glob matching in the broker (PSUBSCRIBE patterns)    *)
(* and String.prototype.match                                              *)
(***************************************************************************)
\* whether channel name s matches the glob pattern p (literals, ? and *)
RECURSIVE GlobMatch(_, _)
GlobMatch(p, s) ==
    IF p = <<>> THEN s = <<>>
    ELSE IF Head(p) = "*"
         THEN GlobMatch(Tail(p), s) \/ (s # <<>> /\ GlobMatch(p, Tail(s)))
    ELSE /\ s # <<>>
         /\ Head(p) = "?" \/ Head(p) = Head(s)
         /\ GlobMatch(Tail(p), Tail(s))

\* whether the literal lit stands in s at position k
LitAt(s, k, lit) ==
    /\ k + Len(lit) - 1 <= Len(s)
    /\ \A j \in 1..Len(lit) : s[k + j - 1] = lit[j]

\* s.match(re) is not null
StringMatch(s, re) ==
    \E k \in 1..(Len(s) + 1) :
        /\ LitAt(s, k, re.v.lit)
        /\ re.v.start => k = 1
        /\ re.v.end => k + Len(re.v.lit) - 1 = Len(s)

\* the elements of a sequence
Range(f) == {f[i] : i \in DOMAIN f}

\* the orders in which the elements of a set can be listed
Orders(S) ==
    {f \in [1..Cardinality(S) -> S] : \A i, j \in DOMAIN f : f[i] = f[j] => i = j}

(***************************************************************************)
(* Bounds of the model                                                     *)
(***************************************************************************)
\* publish commands on pub awaiting their reply
MaxPublish == 1
\* 'pmessage' listeners registered
MaxListeners == 2
\* subscribe/unsubscribe calls whose promise is not yet settled
MaxSubQueue == 1
\* pmessage events received by sub and not yet emitted
MaxInbox == 2
\* other clients of the broker that may receive a published message
MaxOther == 1
\* channels given to one subscribe/unsubscribe call
MaxArgs == 2

(***************************************************************************)
(* State                                                                   *)
(***************************************************************************)
VARIABLES
    patterns,   \* broker: the patterns the sub connection is subscribed to
    subQueue,   \* sub: the subscribe/unsubscribe calls awaiting their reply
    wanted,     \* history: the patterns subscribed and not since unsubscribed
    listeners,  \* sub: the 'pmessage' listeners, in registration order
    inbox,      \* sub: the pmessage events received and not yet emitted
    pubQueue,   \* pub: the publish calls whose command awaits its reply
    last        \* what the last step showed its caller: a returned or settled
                \* promise, or the handler invocations of an emit

vars == <<patterns, subQueue, wanted, listeners, inbox, pubQueue, last>>

\* promises
Pending == [state |-> "pending", value |-> 0]
Resolved(value) == [state |-> "resolved", value |-> value]
Rejected(error) == [state |-> "rejected", value |-> error]

\* new Error('Must provide a channel and message data')
InvalidArgument == "InvalidArgument"
\* the error of a command the broker rejected or the connection lost
TransportError == "TransportError"

\* replies of the broker to a command
NoReply == [state |-> "sent", value |-> 0]
OkReply(n) == [state |-> "ok", value |-> n]
ErrReply(e) == [state |-> "err", value |-> e]

\* the connections the facade creates
sub == "sub"
pub == "pub"

\* the accessor `redis` of the facade
redis == pub

\* a step that shows its caller nothing
Nothing == [kind |-> "none"]

Init ==
    /\ patterns = {}
    /\ subQueue = <<>>
    /\ wanted = {}
    /\ listeners = <<>>
    /\ inbox = <<>>
    /\ pubQueue = <<>>
    /\ last = Nothing

\* the first command of a pipeline the broker has not answered, or 0
FirstSent(q) ==
    IF \E i \in DOMAIN q : q[i].reply.state = "sent"
    THEN CHOOSE i \in DOMAIN q :
            /\ q[i].reply.state = "sent"
            /\ \A j \in 1..(i - 1) : q[j].reply.state # "sent"
    ELSE 0

(***************************************************************************)
(* subscribe / unsubscribe                                                 *)
(***************************************************************************)
\* subscribe(...channels): the command it issues
subscribe(channels) ==
    [conn |-> sub, cmd |-> "psubscribe", args |-> channels]

\* unsubscribe that issues PSUBSCRIBE
unsubscribe_AsSubscribe(channels) ==
    [conn |-> sub, cmd |-> "psubscribe", args |-> channels]

\* unsubscribe that issues UNSUBSCRIBE, the command for plain channels
unsubscribe_Channels(channels) ==
    [conn |-> sub, cmd |-> "unsubscribe", args |-> channels]

\* unsubscribe(...channels): the command it issues
unsubscribe(channels) ==
    [conn |-> sub, cmd |-> "punsubscribe", args |-> channels]

\* a call of subscribe or unsubscribe: its command joins sub's pipeline and
\* the promise of the command is returned as it is
SubCall(op, channels, command) ==
    /\ Len(subQueue) < MaxSubQueue
    /\ subQueue' = Append(subQueue, [op |-> op, channels |-> channels,
                                     command |-> command, reply |-> NoReply,
                                     behind |-> 0])
    /\ last' = Nothing
    /\ UNCHANGED <<patterns, wanted, listeners, inbox, pubQueue>>

Subscribe(channels) == SubCall("subscribe", channels, subscribe(channels))

Unsubscribe(channels) == SubCall("unsubscribe", channels, unsubscribe(channels))

\* the broker's pattern set of the connection after a command
ApplySub(ps, command) ==
    CASE command.cmd = "psubscribe" -> ps \cup Range(command.args)
      [] command.cmd = "punsubscribe" -> ps \ Range(command.args)
      [] OTHER -> ps

\* the broker executes the next command of sub's pipeline; the reply carries
\* the number of patterns the connection is then subscribed to.  It travels
\* on sub's socket behind the pmessage events sent before it.
BrokerSubOk ==
    LET i == FirstSent(subQueue) IN
    /\ i # 0
    /\ LET ps == ApplySub(patterns, subQueue[i].command) IN
       /\ patterns' = ps
       /\ subQueue' = [subQueue EXCEPT ![i].reply = OkReply(Cardinality(ps)),
                                       ![i].behind = Len(inbox)]
    /\ last' = Nothing
    /\ UNCHANGED <<wanted, listeners, inbox, pubQueue>>

\* the broker rejects the next command of sub's pipeline, or the connection
\* fails before it is executed
BrokerSubErr ==
    LET i == FirstSent(subQueue) IN
    /\ i # 0
    /\ subQueue' = [subQueue EXCEPT ![i].reply = ErrReply(TransportError),
                                    ![i].behind = Len(inbox)]
    /\ last' = Nothing
    /\ UNCHANGED <<patterns, wanted, listeners, inbox, pubQueue>>

\* a subscribe/unsubscribe that catches the failure and returns nothing
SubPromise_Swallow(reply) ==
    IF reply.state = "ok" THEN Resolved(reply.value) ELSE Resolved(Undefined)

\* the promise a subscribe/unsubscribe call returned, once the reply is in
SubPromise(reply) ==
    IF reply.state = "ok" THEN Resolved(reply.value) ELSE Rejected(reply.value)

\* sub receives the reply of its oldest command, the events sent before it
\* having been emitted: the call's promise settles
SubReply ==
    /\ subQueue # <<>>
    /\ Head(subQueue).reply.state # "sent"
    /\ Head(subQueue).behind = 0
    /\ LET c == Head(subQueue) IN
       /\ last' = [kind |-> "subSettled", op |-> c.op, channels |-> c.channels,
                   reply |-> c.reply, promise |-> SubPromise(c.reply)]
       /\ wanted' = IF c.reply.state # "ok" THEN wanted
                    ELSE IF c.op = "subscribe" THEN wanted \cup Range(c.channels)
                    ELSE wanted \ Range(c.channels)
    /\ subQueue' = Tail(subQueue)
    /\ UNCHANGED <<patterns, listeners, inbox, pubQueue>>

(***************************************************************************)
(* publish                                                                 *)
(***************************************************************************)
\* publish that validates the channel only
publish_NoMessageCheck(channel, message) ==
    IF Falsy(channel)
    THEN [promise |-> Rejected(InvalidArgument), commands |-> <<>>]
    ELSE [promise |-> Pending,
          commands |-> <<[conn |-> pub, cmd |-> "publish", channel |-> channel,
                          body |-> serializeMessage(message)]>>]

\* publish that sends on the subscriber connection
publish_OnSub(channel, message) ==
    IF Falsy(channel) \/ Falsy(message)
    THEN [promise |-> Rejected(InvalidArgument), commands |-> <<>>]
    ELSE [promise |-> Pending,
          commands |-> <<[conn |-> sub, cmd |-> "publish", channel |-> channel,
                          body |-> serializeMessage(message)]>>]

\* publish that rejects only when both the channel and the message are missing
publish_BothMissing(channel, message) ==
    IF Falsy(channel) /\ Falsy(message)
    THEN [promise |-> Rejected(InvalidArgument), commands |-> <<>>]
    ELSE [promise |-> Pending,
          commands |-> <<[conn |-> pub, cmd |-> "publish", channel |-> channel,
                          body |-> serializeMessage(message)]>>]

\* publish(channel, message), the promise's executor: the state of the
\* returned promise when publish returns and the commands issued
publish(channel, message) ==
    IF Falsy(channel) \/ Falsy(message)
    THEN [promise |-> Rejected(InvalidArgument), commands |-> <<>>]
    ELSE [promise |-> Pending,
          commands |-> <<[conn |-> pub, cmd |-> "publish", channel |-> channel,
                          body |-> serializeMessage(message)]>>]

\* a .catch callback that logs and swallows the error
publishSettled_Swallow(promise, reply) ==
    [logged |-> reply.state = "err", promise |-> promise]

\* the returned promise and the error log once the promise of pub.publish
\* has settled with reply: only a .catch callback is attached to it, which
\* logs and rejects
publishSettled(promise, reply) ==
    IF reply.state = "err"
    THEN [logged |-> TRUE,
          promise |-> IF promise.state = "pending" THEN Rejected(reply.value)
                      ELSE promise]
    ELSE [logged |-> FALSE, promise |-> promise]

\* pub's pipeline once publish(channel, message) has returned
Enqueued(q, channel, message) ==
    LET r == publish(channel, message) IN
    q \o [k \in DOMAIN r.commands |->
            [channel |-> channel, message |-> message, promise |-> r.promise,
             command |-> r.commands[k], reply |-> NoReply]]

\* what publish(channel, message) shows its caller when it returns
Returned(channel, message) ==
    LET r == publish(channel, message) IN
    [kind |-> "publish", channel |-> channel, message |-> message,
     promise |-> r.promise, commands |-> r.commands]

Publish(channel, message) ==
    /\ Len(Enqueued(pubQueue, channel, message)) <= MaxPublish
    /\ pubQueue' = Enqueued(pubQueue, channel, message)
    /\ last' = Returned(channel, message)
    /\ UNCHANGED <<patterns, subQueue, wanted, listeners, inbox>>

\* the subscribed patterns of the sub connection that match a channel
MatchingPatterns(channel) == {p \in patterns : GlobMatch(p, channel)}

\* the broker executes pub's next PUBLISH: the message goes to the sub
\* connection once per matching pattern, and to the other clients
BrokerPublishOk ==
    LET i == FirstSent(pubQueue) IN
    /\ i # 0
    /\ LET c == pubQueue[i].command
           channel == ArgToString(c.channel)
           ps == MatchingPatterns(channel)
       IN  /\ Len(inbox) + Cardinality(ps) <= MaxInbox
           /\ \E order \in Orders(ps), others \in 0..MaxOther :
                /\ inbox' = inbox \o
                      [k \in DOMAIN order |->
                         [pattern |-> order[k], channel |-> channel,
                          message |-> ArgToString(c.body),
                          published |-> pubQueue[i].message]]
                /\ pubQueue' = [pubQueue EXCEPT
                                  ![i].reply = OkReply(Cardinality(ps) + others)]
    /\ last' = Nothing
    /\ UNCHANGED <<patterns, subQueue, wanted, listeners>>

\* pub's next PUBLISH fails: the broker rejects it or the connection is lost
BrokerPublishErr ==
    LET i == FirstSent(pubQueue) IN
    /\ i # 0
    /\ pubQueue' = [pubQueue EXCEPT ![i].reply = ErrReply(TransportError)]
    /\ last' = Nothing
    /\ UNCHANGED <<patterns, subQueue, wanted, listeners, inbox>>

\* pub receives the reply of its oldest command: the promise of pub.publish
\* settles and its callbacks run
PubReply ==
    /\ pubQueue # <<>>
    /\ Head(pubQueue).reply.state # "sent"
    /\ LET c == Head(pubQueue)
           r == publishSettled(c.promise, c.reply)
       IN  last' = [kind |-> "pubSettled", channel |-> c.channel,
                    message |-> c.message, reply |-> c.reply,
                    promise |-> r.promise, logged |-> r.logged]
    /\ pubQueue' = Tail(pubQueue)
    /\ UNCHANGED <<patterns, subQueue, wanted, listeners, inbox>>

(***************************************************************************)
(* listen / onMessage                                                      *)
(***************************************************************************)
\* one call of a handler
Invocation(handler, args) == [handler |-> handler, args |-> args]

\* listen(channel, handler): the listener it adds to sub
listen(channel, handler) ==
    [conn |-> sub, event |-> "pmessage", kind |-> "listen",
     channel |-> channel, handler |-> handler]

\* onMessage(handleMessage): the listener it adds to sub
onMessage(handleMessage) ==
    [conn |-> sub, event |-> "pmessage", kind |-> "onMessage",
     channel |-> Undefined, handler |-> handleMessage]

\* a listen callback that compares the subscribed pattern, not the channel
listenCallback_MatchPattern(l, pattern, msgChannel, message) ==
    IF InstanceofRegExp(l.channel) /\ StringMatch(pattern, l.channel)
    THEN <<Invocation(l.handler, <<JStr(msgChannel), tryConvertToJSON(message)>>)>>
    ELSE IF StrictEqualsString(pattern, l.channel)
    THEN <<Invocation(l.handler, <<JStr(msgChannel), tryConvertToJSON(message)>>)>>
    ELSE <<>>

\* a listen callback that answers only the event of the pattern that is the
\* channel itself
listenCallback_ExactPatternOnly(l, pattern, msgChannel, message) ==
    IF pattern # msgChannel
    THEN <<>>
    ELSE IF InstanceofRegExp(l.channel) /\ StringMatch(msgChannel, l.channel)
    THEN <<Invocation(l.handler, <<JStr(msgChannel), tryConvertToJSON(message)>>)>>
    ELSE IF StrictEqualsString(msgChannel, l.channel)
    THEN <<Invocation(l.handler, <<JStr(msgChannel), tryConvertToJSON(message)>>)>>
    ELSE <<>>

\* the callback listen registers, called with (pattern, msgChannel, message):
\* the handler invocations it makes
listenCallback(l, pattern, msgChannel, message) ==
    IF InstanceofRegExp(l.channel) /\ StringMatch(msgChannel, l.channel)
    THEN <<Invocation(l.handler, <<JStr(msgChannel), tryConvertToJSON(message)>>)>>
    ELSE IF StrictEqualsString(msgChannel, l.channel)
    THEN <<Invocation(l.handler, <<JStr(msgChannel), tryConvertToJSON(message)>>)>>
    ELSE <<>>

\* an onMessage callback that decodes the payload as listen does
onMessageCallback_Decode(l, pattern, msgChannel, message) ==
    <<Invocation(l.handler, <<JStr(pattern), JStr(msgChannel), tryConvertToJSON(message)>>)>>

\* the callback onMessage registers is handleMessage itself
onMessageCallback(l, pattern, msgChannel, message) ==
    <<Invocation(l.handler, <<JStr(pattern), JStr(msgChannel), JStr(message)>>)>>

\* a registration that replaces the listeners
On_Replace(ls, l) == <<l>>

\* sub.on('pmessage', callback): the listener list afterwards
On(ls, l) == Append(ls, l)

\* a handler is named by the place of its registration
Listen(channel) ==
    /\ Len(listeners) < MaxListeners
    /\ listeners' = On(listeners, listen(channel, Len(listeners) + 1))
    /\ last' = Nothing
    /\ UNCHANGED <<patterns, subQueue, wanted, inbox, pubQueue>>

OnMessage ==
    /\ Len(listeners) < MaxListeners
    /\ listeners' = On(listeners, onMessage(Len(listeners) + 1))
    /\ last' = Nothing
    /\ UNCHANGED <<patterns, subQueue, wanted, inbox, pubQueue>>

\* sub.emit('pmessage', pattern, channel, message): every listener is called,
\* in registration order
RECURSIVE Emit(_, _)
Emit(ls, ev) ==
    IF ls = <<>> THEN <<>>
    ELSE (IF Head(ls).kind = "listen"
          THEN listenCallback(Head(ls), ev.pattern, ev.channel, ev.message)
          ELSE onMessageCallback(Head(ls), ev.pattern, ev.channel, ev.message))
         \o Emit(Tail(ls), ev)

\* sub emits the oldest pmessage event it has received; one event fewer is
\* ahead of the replies that wait behind it
Deliver ==
    /\ inbox # <<>>
    /\ last' = [kind |-> "emit", event |-> Head(inbox),
                invoked |-> Emit(listeners, Head(inbox))]
    /\ inbox' = Tail(inbox)
    /\ subQueue' = [i \in DOMAIN subQueue |->
                      IF subQueue[i].behind > 0
                      THEN [subQueue[i] EXCEPT !.behind = @ - 1]
                      ELSE subQueue[i]]
    /\ UNCHANGED <<patterns, wanted, listeners, pubQueue>>

(***************************************************************************)
(* Inputs and specifications                                               *)
(***************************************************************************)
foo == <<"f", "o", "o">>
bar == <<"b", "a", "r">>
star == <<"*">>

\* { a: 1 }
ObjA1 == JObj(<< << <<"a">>, JNum(1) >> >>)

\* the non-empty lists of at most n elements of S
ArgLists(S, n) == UNION {[1..k -> S] : k \in 1..n}

\* The whole facade: every operation, the broker and the event loop.
\* "foo" and "*" both match channel "foo"; neither "foo" nor /^f/ matches "bar".
Patterns == {foo, star}
Channels == {JStr(foo), JStr(bar)}
Messages == {ObjA1}
Matchers == {JStr(foo), JRegExp(TRUE, <<"f">>, FALSE)}

Next ==
    \/ \E channels \in ArgLists(Patterns, 1) : Subscribe(channels)
    \/ \E channels \in ArgLists(Patterns, 1) : Unsubscribe(channels)
    \/ BrokerSubOk
    \/ BrokerSubErr
    \/ SubReply
    \/ \E channel \in Channels, message \in Messages : Publish(channel, message)
    \/ BrokerPublishOk
    \/ BrokerPublishErr
    \/ PubReply
    \/ \E channel \in Matchers : Listen(channel)
    \/ OnMessage
    \/ Deliver

Spec == Init /\ [][Next]_vars

\* publish alone, over missing, empty, string and structured arguments
PubChannels == {Undefined, Null, JStr(<<>>), JStr(foo), JStr(bar)}
PubMessages ==
    {Undefined, Null, JStr(<<>>), JStr(<<"h", "i">>), JStr(<<"1", "2", "3">>),
     ObjA1, JObj(<<>>), JArr(<<>>), JArr(<<JNum(1), JStr(<<"a", "\"">>)>>)}

PubNext ==
    \/ \E channel \in PubChannels, message \in PubMessages : Publish(channel, message)
    \/ BrokerPublishOk
    \/ BrokerPublishErr
    \/ PubReply

PubSpec == Init /\ [][PubNext]_vars

\* the whole facade from the state in which listen("foo", 1) is registered
\* and subscribe("foo") and then unsubscribe("foo") have resolved
ResubInit ==
    /\ patterns = {}
    /\ subQueue = <<>>
    /\ wanted = {}
    /\ listeners = On(<<>>, listen(JStr(foo), 1))
    /\ inbox = <<>>
    /\ pubQueue = <<>>
    /\ last = [kind |-> "subSettled", op |-> "unsubscribe", channels |-> <<foo>>,
               reply |-> OkReply(0), promise |-> SubPromise(OkReply(0))]

ResubSpec == ResubInit /\ [][Next]_vars

\* subscribe and unsubscribe alone, with lists of patterns
SubPatterns == {<<"a">>, <<"b">>}

SubNext ==
    \/ \E channels \in ArgLists(SubPatterns, MaxArgs) : Subscribe(channels)
    \/ \E channels \in ArgLists(SubPatterns, MaxArgs) : Unsubscribe(channels)
    \/ BrokerSubOk
    \/ BrokerSubErr
    \/ SubReply

SubSpec == Init /\ [][SubNext]_vars

\* The path of one message from publish to the handlers, over many messages:
\* it starts when, after subscribe("*"), listen("foo", h1) and onMessage(h2),
\* publish("foo", message) has returned.
CodecMessages ==
    {ObjA1, JObj(<<>>), JArr(<<>>), JArr(<<JStr(<<>>)>>),
     JArr(<<JNum(10), JStr(<<"a", "\"">>), Null, JBool(TRUE)>>),
     JObj(<< << <<"a">>, JArr(<<ObjA1>>) >>, << <<"b">>, JBool(FALSE) >> >>),
     JStr(<<"h", "i">>), JStr(<<"1", "2", "3">>), JStr(<<"0">>),
     JStr(<<"t", "r", "u", "e">>), JStr(<<"f", "a", "l", "s", "e">>),
     JStr(<<"n", "u", "l", "l">>), JStr(<<"\"", "a", "\"">>), JStr(<<"{">>),
     JStr(<<"[", "]">>), JStr(<<" ", "[", "1", ",", " ", "2", "]", " ">>),
     JStr(<<"{", "\"", "a", "\"", ":", "1", "}">>),
     JStr(<<"{", "\"", "a", "\"", ":", "1", "}", "x">>)}

CodecInit ==
    \E message \in CodecMessages :
        /\ patterns = {star}
        /\ subQueue = <<>>
        /\ wanted = {star}
        /\ listeners = On(On(<<>>, listen(JStr(foo), 1)), onMessage(2))
        /\ inbox = <<>>
        /\ pubQueue = Enqueued(<<>>, JStr(foo), message)
        /\ last = Returned(JStr(foo), message)

CodecNext ==
    \/ BrokerPublishOk
    \/ PubReply
    \/ Deliver

CodecSpec == CodecInit /\ [][CodecNext]_vars

(***************************************************************************)
(* Properties                                                              *)
(***************************************************************************)
\* undefined, null or the empty string
MissingOrEmpty(x) == x.t \in {"undefined", "null"} \/ (x.t = "string" /\ Len(x.v) = 0)

\* an object or an array
Structured(x) == x.t \in {"object", "array"}

\* the invocations of handler h in the last emit
InvocationsOf(h) == {k \in DOMAIN last.invoked : last.invoked[k].handler = h}

\* whether a listen matcher matches a channel name
Matches(matcher, channel) ==
    IF matcher.t = "regexp" THEN StringMatch(channel, matcher)
    ELSE matcher = JStr(channel)

IsPrefix(a, b) == Len(a) <= Len(b) /\ \A i \in DOMAIN a : b[i] = a[i]

\* C1: once the PUBLISH of a publish call with a non-empty channel and
\* message has succeeded and its reply is in, the promise publish returned
\* is resolved with the number of receivers the broker replied.
C1_PublishResolves ==
    (last.kind = "pubSettled" /\ last.reply.state = "ok")
        => last.promise = Resolved(last.reply.value)

\* C2: publish with a missing or empty channel, or a missing or empty
\* message, returns a promise rejected with the InvalidArgument error and
\* issues no command on pub.
C2_InvalidPublishRejected ==
    /\ (last.kind = "publish"
          /\ (MissingOrEmpty(last.channel) \/ MissingOrEmpty(last.message)))
          => /\ last.promise = Rejected(InvalidArgument)
             /\ last.commands = <<>>
    /\ \A i \in DOMAIN pubQueue :
          ~MissingOrEmpty(pubQueue[i].channel) /\ ~MissingOrEmpty(pubQueue[i].message)

C2_Witness ==
    /\ last.kind = "publish"
    /\ last.channel = JStr(foo)
    /\ last.message = JStr(<<>>)
    /\ last.promise.state = "rejected"

\* the PUBLISH command C3 names for a channel and a message
ExpectedCommand(channel, message) ==
    [conn |-> pub, cmd |-> "publish", channel |-> channel,
     body |-> IF Structured(message) THEN JStr(JSONstringify(message)) ELSE message]

\* C3: a publish call with a non-empty channel and a non-empty message
\* issues exactly one PUBLISH, to the literal channel, its body the JSON text
\* of a structured message and the message itself otherwise; every command
\* in pub's pipeline is the one command of its call.
C3_OnePublishCommand ==
    /\ (last.kind = "publish"
          /\ ~MissingOrEmpty(last.channel) /\ ~MissingOrEmpty(last.message))
          => last.commands = <<ExpectedCommand(last.channel, last.message)>>
    /\ \A i \in DOMAIN pubQueue :
          pubQueue[i].command = ExpectedCommand(pubQueue[i].channel, pubQueue[i].message)

C3_Witness ==
    /\ last.kind = "publish"
    /\ last.channel = JStr(bar)
    /\ last.message = ObjA1
    /\ Len(last.commands) = 1
    /\ last.commands[1].body = JStr(<<"{", "\"", "a", "\"", ":", "1", "}">>)
    /\ pubQueue # <<>>

\* C4: when the PUBLISH of a publish call fails, the promise publish
\* returned is rejected with that error, and the error has been logged.
C4_PublishFailureRejects ==
    (last.kind = "pubSettled" /\ last.reply.state = "err")
        => /\ last.promise = Rejected(last.reply.value)
           /\ last.logged

C4_Witness ==
    /\ last.kind = "pubSettled"
    /\ last.reply = ErrReply(TransportError)
    /\ last.promise = Rejected(TransportError)

\* C5: in every emit, a handler registered with listen is invoked if and
\* only if its matcher matches the channel of the event: equal to it for a
\* string, matched by it for a RegExp, whatever the subscribed pattern.
C5_ListenMatchesChannel ==
    last.kind = "emit" =>
        \A i \in DOMAIN listeners :
            listeners[i].kind = "listen" =>
                (InvocationsOf(listeners[i].handler) # {}
                    <=> Matches(listeners[i].channel, last.event.channel))

\* "foo" fires for channel foo received under the pattern *, and /^f/ too
C5_Witness ==
    /\ last.kind = "emit"
    /\ last.event.pattern = star
    /\ last.event.channel = foo
    /\ Len(listeners) = 2
    /\ listeners[1].channel = JStr(foo)
    /\ listeners[2].channel = JRegExp(TRUE, <<"f">>, FALSE)
    /\ InvocationsOf(1) # {}
    /\ InvocationsOf(2) # {}

\* C6: no step removes or replaces a registered listener, and in every emit
\* whose channel their matcher matches, two listen callbacks registered on
\* the same matcher are both invoked.
C6_Additive ==
    /\ [][IsPrefix(listeners, listeners')]_vars
    /\ [](last.kind = "emit" =>
            \A i, j \in DOMAIN listeners :
                (/\ listeners[i].kind = "listen"
                 /\ listeners[j].kind = "listen"
                 /\ listeners[i].channel = listeners[j].channel
                 /\ Matches(listeners[i].channel, last.event.channel))
                    => InvocationsOf(listeners[i].handler) # {}
                       /\ InvocationsOf(listeners[j].handler) # {})

C6_Witness ==
    /\ last.kind = "emit"
    /\ Len(listeners) = 2
    /\ listeners[1].kind = "listen"
    /\ listeners[2].kind = "listen"
    /\ listeners[1].channel = listeners[2].channel
    /\ InvocationsOf(1) # {}
    /\ InvocationsOf(2) # {}

\* the payload argument of an invocation: the second argument of a listen
\* handler, the third of an onMessage handler
PayloadArg(inv) == inv.args[Len(inv.args)]

\* C7 as stated: every handler, registered with listen or with onMessage,
\* that receives a published structured value receives a value equal to it.
C7_RoundTripEveryHandler ==
    (last.kind = "emit" /\ Structured(last.event.published)) =>
        /\ last.invoked # <<>>
        /\ \A k \in DOMAIN last.invoked :
              PayloadArg(last.invoked[k]) = last.event.published

\* C7 as amended: a listen handler that receives a published structured
\* value receives a value equal to it; an onMessage handler receives the
\* JSON text of the value as a string.
C7_RoundTripListen ==
    (last.kind = "emit" /\ Structured(last.event.published)) =>
        \A i \in DOMAIN listeners :
            /\ InvocationsOf(listeners[i].handler) # {}
            /\ \A k \in InvocationsOf(listeners[i].handler) :
                  PayloadArg(last.invoked[k]) =
                     IF listeners[i].kind = "listen" THEN last.event.published
                     ELSE JStr(JSONstringify(last.event.published))

C7_Witness ==
    /\ last.kind = "emit"
    /\ last.event.published = ObjA1
    /\ last.invoked[1].args = <<JStr(foo), ObjA1>>
    /\ last.invoked[2].args[3] = JStr(<<"{", "\"", "a", "\"", ":", "1", "}">>)

\* C8: in every emit, every handler registered with onMessage is invoked
\* once, with the pattern, the channel and the payload string of the event.
C8_OnMessageRaw ==
    last.kind = "emit" =>
        \A i \in DOMAIN listeners :
            listeners[i].kind = "onMessage" =>
                /\ Cardinality(InvocationsOf(listeners[i].handler)) = 1
                /\ \A k \in InvocationsOf(listeners[i].handler) :
                      last.invoked[k].args =
                         <<JStr(last.event.pattern), JStr(last.event.channel),
                           JStr(last.event.message)>>

\* an onMessage handler registered after a listen handler that does not
\* match is invoked with the JSON text
C8_Witness ==
    /\ last.kind = "emit"
    /\ last.event.channel = bar
    /\ Len(listeners) = 2
    /\ listeners[1].kind = "listen"
    /\ listeners[2].kind = "onMessage"
    /\ InvocationsOf(1) = {}
    /\ last.invoked[1].args = <<JStr(star), JStr(bar), JStr(JSONstringify(ObjA1))>>

\* C9: in every emit, a listen handler whose matcher matches is invoked
\* with the parsed value when the payload is the JSON text of an object or
\* an array, and with the payload string itself otherwise.
C9_DecodeOrRaw ==
    last.kind = "emit" =>
        \A i \in DOMAIN listeners :
            (listeners[i].kind = "listen"
                /\ Matches(listeners[i].channel, last.event.channel)) =>
                /\ InvocationsOf(listeners[i].handler) # {}
                /\ \A k \in InvocationsOf(listeners[i].handler) :
                      LET parsed == JSONparse(last.event.message) IN
                      last.invoked[k].args[2] =
                         IF parsed.ok /\ Structured(parsed.val) THEN parsed.val
                         ELSE JStr(last.event.message)

\* the payload null reaches the handler as the string "null"
C9_Witness ==
    /\ last.kind = "emit"
    /\ last.event.message = <<"n", "u", "l", "l">>
    /\ last.invoked[1].args = <<JStr(foo), JStr(<<"n", "u", "l", "l">>)>>

\* C10: when no subscribe or unsubscribe call is in flight, the patterns
\* active on sub are those subscribed and not since unsubscribed, and the
\* count the latest call resolved with is their number.
C10_ActivePatterns ==
    subQueue = <<>> =>
        /\ patterns = wanted
        /\ (last.kind = "subSettled" /\ last.promise.state = "resolved")
              => last.promise.value = Cardinality(patterns)

\* after subscribe("a", "b"), unsubscribe("a") resolves with 1 and leaves b
C10_Witness ==
    /\ subQueue = <<>>
    /\ last.kind = "subSettled"
    /\ last.op = "unsubscribe"
    /\ last.channels = << <<"a">> >>
    /\ last.promise = Resolved(1)
    /\ patterns = {<<"b">>}

\* C11: when the reply to a subscribe or unsubscribe command is an error, the
\* promise the call returned is rejected with that error.
C11_SubFailureRejects ==
    (last.kind = "subSettled" /\ last.reply.state = "err") =>
        last.promise = Rejected(last.reply.value)

\* unsubscribe("a", "b") fails with the transport error while a is active
C11_Witness ==
    /\ last.kind = "subSettled"
    /\ last.op = "unsubscribe"
    /\ last.channels = << <<"a">>, <<"b">> >>
    /\ last.reply = ErrReply(TransportError)
    /\ last.promise = Rejected(TransportError)
    /\ patterns = {<<"a">>}

\* C12: every command in sub's pipeline is a PSUBSCRIBE or PUNSUBSCRIBE
\* issued on sub, every listener is registered on sub, every command in pub's
\* pipeline and every command a publish call issues is a PUBLISH issued on
\* pub, and the accessor redis is pub and is not sub.
C12_RolesNeverMix ==
    /\ \A i \in DOMAIN subQueue :
          /\ subQueue[i].command.conn = sub
          /\ subQueue[i].command.cmd \in {"psubscribe", "punsubscribe"}
    /\ \A i \in DOMAIN listeners :
          /\ listeners[i].conn = sub
          /\ listeners[i].event = "pmessage"
    /\ \A i \in DOMAIN pubQueue :
          /\ pubQueue[i].command.conn = pub
          /\ pubQueue[i].command.cmd = "publish"
    /\ last.kind = "publish" =>
          \A i \in DOMAIN last.commands :
             /\ last.commands[i].conn = pub
             /\ last.commands[i].cmd = "publish"
    /\ redis = pub
    /\ redis # sub

\* a publish call returns while an unsubscribe is in flight and a listen and
\* an onMessage handler are registered
C12_Witness ==
    /\ last.kind = "publish"
    /\ Len(last.commands) = 1
    /\ Len(pubQueue) = 1
    /\ Len(subQueue) = 1
    /\ subQueue[1].op = "unsubscribe"
    /\ Len(listeners) = 2
    /\ listeners[1].kind = "listen"
    /\ listeners[2].kind = "onMessage"

\* a step in which the broker executes the PUBLISH at position i of pub's
\* pipeline
Routed(i) ==
    /\ Len(pubQueue') = Len(pubQueue)
    /\ pubQueue[i].reply.state = "sent"
    /\ pubQueue'[i].reply.state = "ok"

\* the events a step adds to those sub has received
NewEvents == SubSeq(inbox', Len(inbox) + 1, Len(inbox'))

\* a step that executes a PUBLISH sends sub one pmessage event for each
\* active pattern that matches the channel, none when none matches, and no
\* other step sends sub an event
OneEventPerPattern ==
    /\ \A i \in DOMAIN pubQueue :
          Routed(i) =>
             LET channel == ArgToString(pubQueue[i].command.channel)
                 matching == {p \in patterns : GlobMatch(p, channel)}
             IN  /\ IsPrefix(inbox, inbox')
                 /\ Len(NewEvents) = Cardinality(matching)
                 /\ {NewEvents[j].pattern : j \in DOMAIN NewEvents} = matching
                 /\ \A j \in DOMAIN NewEvents :
                       /\ NewEvents[j].channel = channel
                       /\ NewEvents[j].published = pubQueue[i].message
    /\ Len(inbox') > Len(inbox) => \E i \in DOMAIN pubQueue : Routed(i)

\* C13: a published message reaches sub as one pmessage event per active
\* pattern that matches its channel (k events for k patterns, none for none),
\* and every emit of one event invokes a listen handler exactly once when
\* its matcher matches the channel and not at all when it does not.
C13_OncePerEvent ==
    /\ [][OneEventPerPattern]_vars
    /\ [](last.kind = "emit" =>
            \A i \in DOMAIN listeners :
               listeners[i].kind = "listen" =>
                  Cardinality(InvocationsOf(listeners[i].handler)) =
                     IF Matches(listeners[i].channel, last.event.channel)
                     THEN 1 ELSE 0)

\* one message published on foo while foo and * are active: the handler of
\* listen("foo") has been invoked for one of its two events and the event
\* of the other pattern is next
C13_Witness ==
    /\ last.kind = "emit"
    /\ last.event.channel = foo
    /\ listeners # <<>>
    /\ listeners[1] = listen(JStr(foo), 1)
    /\ Cardinality(InvocationsOf(1)) = 1
    /\ inbox # <<>>
    /\ Head(inbox).channel = foo
    /\ Head(inbox).pattern # last.event.pattern
    /\ pubQueue # <<>>
    /\ Head(pubQueue).reply.state = "ok"
    /\ Head(pubQueue).reply.value = 2 + MaxOther

\* C14: no PUBLISH in pub's pipeline and none a publish call issues has the
\* empty string as its body, and none was issued for a falsy message.
C14_NoEmptyBody ==
    /\ \A i \in DOMAIN pubQueue :
          /\ ArgToString(pubQueue[i].command.body) # <<>>
          /\ ~Falsy(pubQueue[i].message)
    /\ last.kind = "publish" =>
          \A i \in DOMAIN last.commands :
             /\ ArgToString(last.commands[i].body) # <<>>
             /\ ~Falsy(last.message)

\* publish("foo", "") is rejected and issues nothing while the PUBLISH of an
\* earlier call is in the pipeline
C14_Witness ==
    /\ last.kind = "publish"
    /\ last.channel = JStr(foo)
    /\ last.message = JStr(<<>>)
    /\ last.promise = Rejected(InvalidArgument)
    /\ last.commands = <<>>
    /\ Len(pubQueue) = 1
    /\ serializeMessage(last.message) = JStr(<<>>)

\* whether the caller has a pattern matching the channel subscribed: one that
\* a subscribe call resolved for and no unsubscribe call has since, or one of
\* a subscribe or unsubscribe call that has not settled yet
Subscribed(channel) ==
    \E p \in wanted \union UNION {Range(subQueue[i].channels) : i \in DOMAIN subQueue} :
        GlobMatch(p, channel)

\* a PUBLISH executed while no active pattern matches its channel sends sub
\* nothing, one executed while some does sends sub an event
SilentWithoutPattern ==
    \A i \in DOMAIN pubQueue :
        Routed(i) =>
           LET channel == ArgToString(pubQueue[i].command.channel) IN
           (inbox' = inbox) <=> (\A p \in patterns : ~GlobMatch(p, channel))

\* registering a handler changes no subscription, and no step that changes
\* the subscriptions or their commands changes the registered handlers
Independent ==
    /\ listeners' # listeners =>
          /\ IsPrefix(listeners, listeners')
          /\ UNCHANGED <<patterns, wanted, subQueue, inbox>>
    /\ (patterns' # patterns \/ wanted' # wanted \/ subQueue' # subQueue) =>
          listeners' = listeners

\* C15: handlers and subscriptions do not touch each other; every emit
\* invokes every onMessage handler and every listen handler whose matcher
\* matches the channel, whenever each was registered; an event is emitted
\* only for a channel the caller has a matching pattern subscribed for, or a
\* call about one in flight; and a PUBLISH executed while no active pattern
\* matches sends no event, one executed after a matching pattern is active
\* again does.
C15_ListenersOutliveSubscriptions ==
    /\ [][Independent /\ SilentWithoutPattern]_vars
    /\ [](last.kind = "emit" =>
            /\ Subscribed(last.event.channel)
            /\ \A i \in DOMAIN listeners :
                  (InvocationsOf(listeners[i].handler) # {}) <=>
                     \/ listeners[i].kind = "onMessage"
                     \/ Matches(listeners[i].channel, last.event.channel))

\* the handler of listen("foo"), registered before foo was subscribed and
\* unsubscribed, and an onMessage handler registered after, are both invoked
\* for a message on foo once foo is subscribed again
C15_Witness ==
    /\ last.kind = "emit"
    /\ last.event.pattern = foo
    /\ last.event.channel = foo
    /\ foo \in wanted
    /\ subQueue = <<>>
    /\ Len(listeners) = 2
    /\ listeners[1] = listen(JStr(foo), 1)
    /\ listeners[2].kind = "onMessage"
    /\ InvocationsOf(1) # {}
    /\ InvocationsOf(2) # {}
====
